---- MODULE Spec2Model ----
(***************************************************************************)
(* webhook2notion: POST /add_db_row creates a row in a Notion database and *)
(* fills it in a background task (src/app.py).                             *)
(*                                                                         *)
(* One event loop runs everything.  Neither add_db_row_handler nor         *)
(* notion_set_page_content contains an await, so a handler runs from its   *)
(* first line to the response in one turn of the loop, and a background    *)
(* task, once the loop starts it, keeps the loop until it returns or       *)
(* raises.  The task's store calls are separate steps of the model (the    *)
(* store sees them one by one), but no other coroutine runs between them.  *)
(***************************************************************************)
EXTENDS Integers, Sequences, FiniteSets, TLC

\* ------------------------------------------------------------------ bounds
NumRequests == 2
MaxProps == 2
MaxBlocks == 2
MaxParseLen == 2

Requests == 1..NumRequests

\* ------------------------------------------------------- values of the code
None == "<None>"
Absent == "<absent>"

ConfiguredSecret == "s3cret"
ConfiguredToken == "token_v2"
GoodUrl == "https://www.notion.so/db?v=view"
BadUrl == "https://www.notion.so/nothing"

VARIABLES
    SECRET,       \* os.environ.get('SECRET')
    TOKEN,        \* os.environ.get('TOKEN')
    request,      \* the Request object the loop is handling, per request id
    orch,         \* per request: the orchestrator's state and furthest stage
    responses,    \* per request: the HTTP responses written, in order
    calls,        \* the external store: the handlers' calls of it, in call order
    rows,         \* the external store: the rows created, in creation order
    task,         \* per request: the frame of notion_set_page_content
    ready,        \* the loop's queue of tasks added and not yet started
    running,      \* the task that holds the loop, 0 when the loop is free
    budget,       \* what the requests still to come may carry (bounds the model)
    parse_in,     \* parser harness: the JSON handed to the parser
    parse_out     \* parser harness: what the parser returned

vars == <<SECRET, TOKEN, request, orch, responses, calls, rows, task, ready, running,
          budget, parse_in, parse_out>>

\* ------------------------------------------------------------ request data
\* A JSON object of the request body: the keys it has, and their values.
\* A key that is not in `keys` carries a filler that is never read.
JsonKeys == {"db_url", "body", "properties"}

\* Markdown: lines; a "#" line is a heading, a "" line is blank, the rest
\* is paragraph text.  `text` identifies the content.
MdLine(i) ==
    IF i % 2 = 0 THEN [mark |-> "", text |-> 0]
    ELSE IF i % 4 = 1 THEN [mark |-> "#", text |-> i]
    ELSE [mark |-> "p", text |-> i]

Markdown(n) == [i \in 1..(IF n = 0 THEN 0 ELSE 2 * n - 1) |-> MdLine(i)]

Bodies == {Markdown(n) : n \in 0..MaxBlocks}

\* One element of a `properties` list.
NonDict == [t |-> "str", name |-> Absent, value |-> Absent]
Dict(n, v) == [t |-> "dict", name |-> n, value |-> v]

AllElems ==
    {NonDict} \cup {Dict(n, v) : n \in {Absent, None, "Title", "Tags"},
                                 v \in {Absent, None, "v"}}

SeqsUpTo(S, n) == UNION {[1..k -> S] : k \in 0..n}

\* a `properties` value: its JSON type and, for a list, its elements; for a
\* string or an object, what a for loop over it would yield (characters,
\* keys: no dictionaries)
PropValue(t, v) == [t |-> t, v |-> v]

\* every `properties` value the parser harness tries
AllPropValues ==
    {PropValue("str", <<NonDict, NonDict>>), PropValue("null", <<>>),
     PropValue("dict", <<NonDict>>)}
    \cup {PropValue("list", s) : s \in SeqsUpTo(AllElems, MaxParseLen)}

\* the `properties` values of the requests of the main specification: a
\* string, and the lists whose k-th element sets the k-th property name or
\* lacks its `value`
PropNames == <<"Title", "Tags", "Status", "Due">>
PropName(k) == PropNames[((k - 1) % Len(PropNames)) + 1]

RequestList(n, M) ==
    [k \in 1..n |-> IF k \in M THEN Dict(PropName(k), Absent) ELSE Dict(PropName(k), "v")]

RequestPropValues ==
    {PropValue("str", <<NonDict, NonDict>>)}
    \cup UNION {{PropValue("list", RequestList(n, M)) : M \in SUBSET (1..n)} :
                n \in 0..MaxProps}

JsonObject(K, u, b, p) ==
    [kind |-> "object", keys |-> K,
     db_url |-> IF "db_url" \in K THEN u ELSE Absent,
     body |-> IF "body" \in K THEN b ELSE <<>>,
     properties |-> IF "properties" \in K THEN p ELSE PropValue("null", <<>>)]

\* a body that is not an object: unparseable, empty (request.json is None),
\* or a JSON array
JsonOther(k) ==
    [kind |-> k, keys |-> {}, db_url |-> Absent, body |-> <<>>,
     properties |-> PropValue("null", <<>>)]

\* the request bodies of the main specification: the bodies that are no
\* object; objects without db_url; an object whose db_url is no database;
\* and every object with a db_url, with or without body and properties
ShapesJson ==
    {JsonOther(k) : k \in {"invalid", "empty", "array"}}
    \cup {JsonObject(K, GoodUrl, Markdown(1), PropValue("list", RequestList(1, {}))) :
            K \in SUBSET {"body", "properties"}}
    \cup {JsonObject(JsonKeys, BadUrl, Markdown(1), PropValue("list", RequestList(1, {})))}

RequestJson ==
    ShapesJson
    \cup {JsonObject({"db_url"} \cup K, GoodUrl, b, p) :
            K \in SUBSET {"body", "properties"}, b \in Bodies, p \in RequestPropValues}

\* the bodies sent with a missing or a wrong secret: every shape above, and
\* the objects that would be accepted, with and without content
RejectedJson ==
    ShapesJson
    \cup {JsonObject({"db_url"} \cup K, GoodUrl, Markdown(1),
                     PropValue("list", RequestList(1, {}))) :
            K \in {{}, {"body", "properties"}}}

HarnessJson ==
    {JsonObject(K, GoodUrl, <<>>, p) : K \in {{"db_url"}, {"db_url", "properties"}},
                                       p \in AllPropValues}

RequestSecrets == {None, ConfiguredSecret, "wrong"}

\* the requests of the main specification
RequestInputs ==
    {[secret |-> ConfiguredSecret, json |-> j, present |-> TRUE] : j \in RequestJson}
    \cup {[secret |-> s, json |-> j, present |-> TRUE] :
            s \in RequestSecrets \ {ConfiguredSecret}, j \in RejectedJson}

\* the size of a request body: the elements of its property list, and the
\* blocks of its markdown
PropsIn(j) == IF j.properties.t = "list" THEN Len(j.properties.v) ELSE 0
BlocksIn(j) == (Len(j.body) + 1) \div 2

NoRequest == [secret |-> None, json |-> JsonOther("empty"), present |-> FALSE]

\* ------------------------------------------------------------ AppException
\* class AppException: status_code = 400 unless the constructor overrides it
\* (a status_code argument of 0 stands for the default None; no raise of the
\* program passes one)
DefaultStatusCode == 400

AppException(message, status_code, payload) ==
    [message |-> message,
     status_code |-> IF status_code # 0 THEN status_code ELSE DefaultStatusCode,
     payload |-> payload]

\* to_dict: the payload's entries (none is ever passed), then status and error
to_dict(e) == [status |-> "failure", error |-> e.message]

handle_app_exception(e) == [status |-> e.status_code, body |-> to_dict(e)]

\* what the server answers when the handler raises anything that is not an
\* AppException: no handler is registered for it
ServerErrorResponse(exc) ==
    [status |-> 500, body |-> [description |-> "Internal Server Error"]]

Message(text, arg) == [text |-> text, arg |-> arg]

Raise(message) == [raised |-> "AppException", exc |-> AppException(message, 0, None)]
RaiseOther(class) == [raised |-> class, exc |-> AppException(Message(class, ""), 0, None)]
Return == [raised |-> None, exc |-> AppException(Message("", ""), 0, None)]

\* ------------------------------------------------------------ check_secret
\* mutant of check_secret: the submitted secret is required but not compared
check_secret_uncompared(correct_secret, request_secret) ==
    IF correct_secret = None
    THEN Raise(Message("Please configure password using SECRET", ""))
    ELSE IF request_secret = None
    THEN Raise(Message("Auth Failure: Please include app password", ""))
    ELSE Return

check_secret(correct_secret, request_secret) ==
    IF correct_secret = None
    THEN Raise(Message("Please configure password using SECRET", ""))
    ELSE IF request_secret = None
    THEN Raise(Message("Auth Failure: Please include app password", ""))
    ELSE IF request_secret # correct_secret
    THEN Raise(Message("Auth Failure: secret does not match", request_secret))
    ELSE Return

\* ------------------------------------------------- parse_add_db_row_request
NotionPageProperty(name, value) == [name |-> name, value |-> value]

\* dict.get(key, None) on one element of the list
Get(prop, key) == IF prop[key] = Absent THEN None ELSE prop[key]

\* mutant of ParseLoop: only `name` is required of a dictionary
RECURSIVE ParseLoop_name_only(_, _, _, _)
ParseLoop_name_only(property_dicts, i, properties, errors) ==
    IF i > Len(property_dicts) THEN [properties |-> properties, errors |-> errors]
    ELSE LET prop == property_dicts[i] IN
         IF prop.t # "dict"
         THEN ParseLoop_name_only(property_dicts, i + 1, properties,
                                  Append(errors, Message("not a dictionary", prop)))
         ELSE IF Get(prop, "name") = None
         THEN ParseLoop_name_only(property_dicts, i + 1, properties,
                                  Append(errors,
                                         Message("name or value key is missing", prop)))
         ELSE ParseLoop_name_only(property_dicts, i + 1,
                                  Append(properties,
                                         NotionPageProperty(Get(prop, "name"),
                                                            Get(prop, "value"))),
                                  errors)

\* the loop over property_dicts, from element i on
RECURSIVE ParseLoop(_, _, _, _)
ParseLoop(property_dicts, i, properties, errors) ==
    IF i > Len(property_dicts) THEN [properties |-> properties, errors |-> errors]
    ELSE LET prop == property_dicts[i] IN
         IF prop.t # "dict"
         THEN ParseLoop(property_dicts, i + 1, properties,
                        Append(errors, Message("not a dictionary", prop)))
         ELSE IF Get(prop, "name") = None \/ Get(prop, "value") = None
         THEN ParseLoop(property_dicts, i + 1, properties,
                        Append(errors, Message("name or value key is missing", prop)))
         ELSE ParseLoop(property_dicts, i + 1,
                        Append(properties,
                               NotionPageProperty(Get(prop, "name"), Get(prop, "value"))),
                        errors)

\* mutant of ParseOptional: property_dicts is not reset when it is no list
ParseOptional_iterates(json_data) ==
    LET body == IF "body" \in json_data.keys THEN json_data.body ELSE <<>>
        given == IF "properties" \in json_data.keys
                 THEN json_data.properties ELSE PropValue("list", <<>>)
        errors0 == IF given.t # "list"
                   THEN <<Message("properties is not a list", given)>> ELSE <<>>
        parsed == ParseLoop(given.v, 1, <<>>, errors0)
    IN [db_url |-> json_data.db_url, body |-> body,
        properties |-> parsed.properties, errors |-> parsed.errors]

\* lines 61-97: the optional parameters and the property list
ParseOptional(json_data) ==
    LET body == IF "body" \in json_data.keys THEN json_data.body ELSE <<>>
        given == IF "properties" \in json_data.keys
                 THEN json_data.properties ELSE PropValue("list", <<>>)
        not_list == given.t # "list"
        errors0 == IF not_list THEN <<Message("properties is not a list", given)>>
                   ELSE <<>>
        property_dicts == IF not_list THEN <<>> ELSE given.v
        parsed == ParseLoop(property_dicts, 1, <<>>, errors0)
    IN [db_url |-> json_data.db_url, body |-> body,
        properties |-> parsed.properties, errors |-> parsed.errors]

NoResult == [db_url |-> Absent, body |-> <<>>, properties |-> <<>>, errors |-> <<>>]

\* the whole parser: how it ends (returns or raises) and what it returns
parse_add_db_row_request(json_data) ==
    IF json_data.kind = "invalid"
    THEN [end |-> Raise(Message("Body was not sent in JSON format", "")),
          result |-> NoResult]
    ELSE IF json_data.kind # "object"
    THEN \* json_data.keys() on None or on a list
         [end |-> RaiseOther("AttributeError"), result |-> NoResult]
    ELSE IF "db_url" \notin json_data.keys
    THEN [end |-> Raise(Message("JSON is missing required parameters", "db_url")),
          result |-> NoResult]
    ELSE [end |-> Return, result |-> ParseOptional(json_data)]

\* ------------------------------------------------------------ notion_login
\* `outcome` is what NotionClient(token_v2=...) does: "ok", "HTTPError"
\* (urllib.error.HTTPError) or "OtherError" (any other exception)
LoginOutcomes == {"ok", "HTTPError", "OtherError"}

notion_login(notion_token, outcome) ==
    IF notion_token = None
    THEN Raise(Message("Could not login to notion: Token was not set", ""))
    ELSE IF outcome = "HTTPError"
    THEN Raise(Message("Could not login to notion", outcome))
    ELSE IF outcome = "OtherError" THEN RaiseOther("OtherError")
    ELSE Return

\* ------------------------------------------------------- the external store
\* page.get_browseable_url(): fixed by the row's id at creation
BrowseableUrl(id) == <<"https://www.notion.so/", id>>

NewRow(r, db_url) ==
    [created_by |-> r, collection |-> db_url, url |-> BrowseableUrl(Len(rows) + 1),
     properties |-> <<>>, children |-> <<>>]

\* one call of the store by a handler: NotionClient(token_v2=...) ("login")
\* or get_collection_view + add_row ("add_row"), and how it ended
StoreCall(op, r, outcome) == [op |-> op, by |-> r, outcome |-> outcome]

\* get_collection_view(db_url) and db.collection.add_row(): "ok" creates the
\* row; the view does not resolve for a url that is not a database, and the
\* store call may fail
AddRowOutcomes(db_url) == IF db_url = GoodUrl THEN {"ok", "error"} ELSE {"error"}

\* md2notion convert: one block descriptor per non-blank line, in order
RECURSIVE convert_md_to_notion(_)
convert_md_to_notion(body) ==
    IF body = <<>> THEN <<>>
    ELSE LET line == Head(body)
             rest == convert_md_to_notion(Tail(body))
         IN IF line.mark = "" THEN rest
            ELSE IF line.mark = "#"
            THEN <<[type |-> "HeaderBlock", title |-> line.text]>> \o rest
            ELSE <<[type |-> "TextBlock", title |-> line.text]>> \o rest

\* ---------------------------------------------------------------- the state
\* the frame of notion_set_page_content: its arguments (the client and the
\* page are handles into the store), the position of the two loops, `last`
\* (what the latest set_property call did), and, once it has ended, the
\* exception that ended it and the call that raised it
NoTask == [pc |-> "none", notion_client |-> 0, page |-> 0, body |-> <<>>,
           properties |-> <<>>, i |-> 0, last |-> None, notion_blocks |-> <<>>,
           idx |-> 0, exc |-> None, at |-> None]

\* a task that returned or raised: its frame is gone
Ended(pc, exc, at) == [NoTask EXCEPT !.pc = pc, !.exc = exc, !.at = at]

NotParsed == [called |-> FALSE, end |-> Return, result |-> NoResult]

Idle == [state |-> "idle", stage |-> "none", error |-> None]

Init ==
    /\ SECRET \in {None, ConfiguredSecret}
    /\ TOKEN \in {None, ConfiguredToken}
    /\ request = [r \in Requests |-> NoRequest]
    /\ orch = [r \in Requests |-> Idle]
    /\ responses = [r \in Requests |-> <<>>]
    /\ calls = <<>>
    /\ rows = <<>>
    /\ task = [r \in Requests |-> NoTask]
    /\ ready = <<>>
    /\ running = 0
    /\ budget = [props |-> MaxProps, blocks |-> MaxBlocks]
    /\ parse_in = JsonOther("empty")
    /\ parse_out = NotParsed

\* the loop is between two turns: no handler and no task is executing
LoopFree == running = 0 /\ \A q \in Requests : orch[q].state # "received"

\* ------------------------------------------------------------------ actions
\* The server reads a request and builds the Request object the handler gets.
\* Requests are numbered in the order the loop takes them up.
Receive(r) ==
    /\ LoopFree
    /\ orch[r].state = "idle"
    /\ \A q \in Requests : q < r => orch[q].state # "idle"
    /\ \E req \in RequestInputs :
          /\ PropsIn(req.json) <= budget.props
          /\ BlocksIn(req.json) <= budget.blocks
          /\ request' = [request EXCEPT ![r] = req]
          /\ budget' = [props |-> budget.props - PropsIn(req.json),
                        blocks |-> budget.blocks - BlocksIn(req.json)]
    /\ orch' = [orch EXCEPT ![r] = [state |-> "received", stage |-> "received",
                                    error |-> None]]
    /\ UNCHANGED <<SECRET, TOKEN, responses, calls, rows, task, ready, running,
                   parse_in, parse_out>>

\* the handler raised: the response the server writes for the exception
Abort(r, end, stage) ==
    /\ responses' = [responses EXCEPT ![r] =
                        Append(@, IF end.raised = "AppException"
                                  THEN handle_app_exception(end.exc)
                                  ELSE ServerErrorResponse(end.raised))]
    /\ orch' = [orch EXCEPT ![r] = [state |-> "aborted", stage |-> stage,
                                    error |-> end.raised]]
    /\ UNCHANGED <<rows, task, ready>>

\* mutant of Respond: the handler awaits notion_set_page_content before it
\* returns the response
Respond_awaits(r, parsed) ==
    LET new_row == NewRow(r, parsed.db_url)
        result == [status |-> "background_processing", new_row_url |-> new_row.url]
    IN /\ rows' = Append(rows, [new_row EXCEPT
                                   !.properties = parsed.properties,
                                   !.children = convert_md_to_notion(parsed.body)])
       /\ task' = [task EXCEPT ![r] = Ended("done", None, None)]
       /\ ready' = ready
       /\ responses' = [responses EXCEPT ![r] =
                           Append(@, [status |-> 200, body |-> result])]
       /\ orch' = [orch EXCEPT ![r] = [state |-> "responded", stage |-> "responded",
                                       error |-> None]]

\* mutant of Respond: the url is answered and the row creation is left to
\* later
Respond_deferred(r, parsed) ==
    LET result == [status |-> "background_processing",
                   new_row_url |-> BrowseableUrl(Len(rows) + 1)]
    IN /\ UNCHANGED <<rows, task, ready>>
       /\ responses' = [responses EXCEPT ![r] =
                           Append(@, [status |-> 200, body |-> result])]
       /\ orch' = [orch EXCEPT ![r] = [state |-> "responded", stage |-> "responded",
                                       error |-> None]]

\* mutant of Respond: the result always carries the errors list, empty or not
Respond_always_errors(r, parsed) ==
    LET new_row == NewRow(r, parsed.db_url)
        id == Len(rows) + 1
        result == [status |-> "background_processing", new_row_url |-> new_row.url,
                   errors |-> parsed.errors]
    IN /\ rows' = Append(rows, new_row)
       /\ task' = [task EXCEPT ![r] =
                      [NoTask EXCEPT !.pc = "scheduled", !.notion_client = Len(calls) + 1,
                                     !.page = id, !.body = parsed.body,
                                     !.properties = parsed.properties]]
       /\ ready' = Append(ready, r)
       /\ responses' = [responses EXCEPT ![r] =
                           Append(@, [status |-> 200, body |-> result])]
       /\ orch' = [orch EXCEPT ![r] = [state |-> "responded", stage |-> "responded",
                                       error |-> None]]

\* mutant of Respond: the response is returned and no task is added
Respond_no_task(r, parsed) ==
    LET new_row == NewRow(r, parsed.db_url)
        result0 == [status |-> "background_processing", new_row_url |-> new_row.url]
        result == IF Len(parsed.errors) > 0
                  THEN [status |-> result0.status, new_row_url |-> result0.new_row_url,
                        errors |-> parsed.errors]
                  ELSE result0
    IN /\ rows' = Append(rows, new_row)
       /\ UNCHANGED <<task, ready>>
       /\ responses' = [responses EXCEPT ![r] =
                           Append(@, [status |-> 200, body |-> result])]
       /\ orch' = [orch EXCEPT ![r] = [state |-> "responded", stage |-> "responded",
                                       error |-> None]]

\* lines 159-176: the row is created, the result built, the task added and
\* the response returned
Respond(r, parsed) ==
    LET new_row == NewRow(r, parsed.db_url)
        id == Len(rows) + 1
        result0 == [status |-> "background_processing", new_row_url |-> new_row.url]
        result == IF Len(parsed.errors) > 0
                  THEN [status |-> result0.status, new_row_url |-> result0.new_row_url,
                        errors |-> parsed.errors]
                  ELSE result0
    IN /\ rows' = Append(rows, new_row)
       /\ task' = [task EXCEPT ![r] =
                      [NoTask EXCEPT !.pc = "scheduled", !.notion_client = Len(calls) + 1,
                                     !.page = id, !.body = parsed.body,
                                     !.properties = parsed.properties]]
       /\ ready' = Append(ready, r)
       /\ responses' = [responses EXCEPT ![r] =
                           Append(@, [status |-> 200, body |-> result])]
       /\ orch' = [orch EXCEPT ![r] = [state |-> "responded", stage |-> "responded",
                                       error |-> None]]

\* POST /add_db_row: the handler, from check_secret to the response, and the
\* exception handler when it raises.  The handler has no await.
add_db_row_handler(r) ==
    /\ orch[r].state = "received"
    /\ LET checked == check_secret(SECRET, request[r].secret)
           parsed == parse_add_db_row_request(request[r].json)
       IN IF checked.raised # None
          THEN Abort(r, checked, "received") /\ calls' = calls
          ELSE IF parsed.end.raised # None
          THEN Abort(r, parsed.end, "received") /\ calls' = calls
          ELSE \E lo \in LoginOutcomes :
                  LET login == notion_login(TOKEN, lo) IN
                  IF login.raised # None
                  THEN /\ Abort(r, login, "validated")
                       /\ calls' = IF TOKEN = None THEN calls
                                    ELSE Append(calls, StoreCall("login", r, lo))
                  ELSE \E ao \in AddRowOutcomes(parsed.result.db_url) :
                          /\ calls' = calls \o <<StoreCall("login", r, lo),
                                                  StoreCall("add_row", r, ao)>>
                          /\ IF ao # "ok"
                             THEN Abort(r, RaiseOther("StoreError"), "authenticated")
                             ELSE Respond(r, parsed.result)
    /\ request' = [request EXCEPT ![r] = NoRequest]
    /\ UNCHANGED <<SECRET, TOKEN, running, budget, parse_in, parse_out>>

\* the loop starts the oldest added task: line 128
TaskStart(r) ==
    /\ LoopFree
    /\ ready # <<>> /\ Head(ready) = r
    /\ task[r].pc = "scheduled"
    /\ ready' = Tail(ready)
    /\ running' = r
    /\ task' = [task EXCEPT ![r].pc = "props", ![r].i = 1]
    /\ UNCHANGED <<SECRET, TOKEN, request, orch, responses, calls, rows, budget, parse_in, parse_out>>

\* what page.set_property does: "ok", or the exception it raises
SetOutcomes == {"ok", "ValueError", "AttributeError", "TypeError", "HTTPError"}
Caught == {"ValueError", "AttributeError", "TypeError"}

\* mutant of SetProperty: no except clause, every exception ends the task
SetProperty_uncaught(r) ==
    /\ running = r
    /\ task[r].pc = "props"
    /\ task[r].i <= Len(task[r].properties)
    /\ \E o \in SetOutcomes :
          LET prop == task[r].properties[task[r].i] IN
          IF o = "ok"
          THEN /\ rows' = [rows EXCEPT ![task[r].page].properties = Append(@, prop)]
               /\ task' = [task EXCEPT ![r].i = @ + 1, ![r].last = o]
               /\ running' = running
          ELSE /\ task' = [task EXCEPT ![r] = Ended("failed", o, "set_property")]
               /\ running' = 0
               /\ rows' = rows
    /\ UNCHANGED <<SECRET, TOKEN, request, orch, responses, calls, ready, budget,
                   parse_in, parse_out>>

\* mutant of SetProperty: the page is the row created last, as if the handler
\* kept new_row in a variable of the module
SetProperty_latest_row(r) ==
    /\ running = r
    /\ task[r].pc = "props"
    /\ task[r].i <= Len(task[r].properties)
    /\ \E o \in SetOutcomes :
          LET prop == task[r].properties[task[r].i] IN
          IF o = "ok"
          THEN /\ rows' = [rows EXCEPT ![Len(rows)].properties = Append(@, prop)]
               /\ task' = [task EXCEPT ![r].i = @ + 1, ![r].last = o]
               /\ running' = running
          ELSE IF o \in Caught
          THEN /\ task' = [task EXCEPT ![r].i = @ + 1, ![r].last = o]
               /\ UNCHANGED <<rows, running>>
          ELSE /\ task' = [task EXCEPT ![r] = Ended("failed", o, "set_property")]
               /\ running' = 0
               /\ rows' = rows
    /\ UNCHANGED <<SECRET, TOKEN, request, orch, responses, calls, ready, budget,
                   parse_in, parse_out>>

\* mutant of SetProperty: the properties are taken from the end of the list
SetProperty_reversed(r) ==
    /\ running = r
    /\ task[r].pc = "props"
    /\ task[r].i <= Len(task[r].properties)
    /\ \E o \in SetOutcomes :
          LET prop == task[r].properties[Len(task[r].properties) - task[r].i + 1] IN
          IF o = "ok"
          THEN /\ rows' = [rows EXCEPT ![task[r].page].properties = Append(@, prop)]
               /\ task' = [task EXCEPT ![r].i = @ + 1, ![r].last = o]
               /\ running' = running
          ELSE IF o \in Caught
          THEN /\ task' = [task EXCEPT ![r].i = @ + 1, ![r].last = o]
               /\ UNCHANGED <<rows, running>>
          ELSE /\ task' = [task EXCEPT ![r] = Ended("failed", o, "set_property")]
               /\ running' = 0
               /\ rows' = rows
    /\ UNCHANGED <<SECRET, TOKEN, request, orch, responses, calls, ready, budget,
                   parse_in, parse_out>>

\* mutant of SetProperty: `except Exception`, every exception is caught and
\* the loop goes on
SetProperty_catch_all(r) ==
    /\ running = r
    /\ task[r].pc = "props"
    /\ task[r].i <= Len(task[r].properties)
    /\ \E o \in SetOutcomes :
          LET prop == task[r].properties[task[r].i] IN
          IF o = "ok"
          THEN /\ rows' = [rows EXCEPT ![task[r].page].properties = Append(@, prop)]
               /\ task' = [task EXCEPT ![r].i = @ + 1, ![r].last = o]
               /\ running' = running
          ELSE /\ task' = [task EXCEPT ![r].i = @ + 1, ![r].last = o]
               /\ UNCHANGED <<rows, running>>
    /\ UNCHANGED <<SECRET, TOKEN, request, orch, responses, calls, ready, budget,
                   parse_in, parse_out>>

\* lines 130-137: one turn of the property loop
SetProperty(r) ==
    /\ running = r
    /\ task[r].pc = "props"
    /\ task[r].i <= Len(task[r].properties)
    /\ \E o \in SetOutcomes :
          LET prop == task[r].properties[task[r].i] IN
          IF o = "ok"
          THEN /\ rows' = [rows EXCEPT ![task[r].page].properties = Append(@, prop)]
               /\ task' = [task EXCEPT ![r].i = @ + 1, ![r].last = o]
               /\ running' = running
          ELSE IF o \in Caught
          THEN /\ task' = [task EXCEPT ![r].i = @ + 1, ![r].last = o]
               /\ UNCHANGED <<rows, running>>
          ELSE /\ task' = [task EXCEPT ![r] = Ended("failed", o, "set_property")]
               /\ running' = 0
               /\ rows' = rows
    /\ UNCHANGED <<SECRET, TOKEN, request, orch, responses, calls, ready, budget, parse_in, parse_out>>

\* mutant of Convert: an empty conversion is replaced by one empty paragraph
Convert_placeholder(r) ==
    /\ running = r
    /\ task[r].pc = "props"
    /\ task[r].i > Len(task[r].properties)
    /\ LET blocks == convert_md_to_notion(task[r].body)
       IN task' = [task EXCEPT ![r].pc = "upload",
                               ![r].notion_blocks =
                                   IF blocks = <<>>
                                   THEN <<[type |-> "TextBlock", title |-> 0]>>
                                   ELSE blocks,
                               ![r].idx = 0]
    /\ UNCHANGED <<SECRET, TOKEN, request, orch, responses, calls, rows, ready, running,
                   budget, parse_in, parse_out>>

\* line 140: the property loop is over, the body is converted
Convert(r) ==
    /\ running = r
    /\ task[r].pc = "props"
    /\ task[r].i > Len(task[r].properties)
    /\ task' = [task EXCEPT ![r].pc = "upload",
                            ![r].notion_blocks = convert_md_to_notion(task[r].body),
                            ![r].idx = 0]
    /\ UNCHANGED <<SECRET, TOKEN, request, orch, responses, calls, rows, ready, running,
                   budget, parse_in, parse_out>>

\* what upload_notion_block does: "ok", or it raises
UploadOutcomes == {"ok", "HTTPError"}

\* mutant of UploadBlock: the blocks are taken from the end of the list
UploadBlock_from_end(r) ==
    /\ running = r
    /\ task[r].pc = "upload"
    /\ task[r].idx < Len(task[r].notion_blocks)
    /\ \E o \in UploadOutcomes :
          LET block_descriptor ==
                  task[r].notion_blocks[Len(task[r].notion_blocks) - task[r].idx] IN
          IF o = "ok"
          THEN /\ rows' = [rows EXCEPT ![task[r].page].children =
                              Append(@, block_descriptor)]
               /\ task' = [task EXCEPT ![r].idx = @ + 1]
               /\ running' = running
          ELSE /\ task' = [task EXCEPT ![r] = Ended("failed", o, "upload_notion_block")]
               /\ running' = 0
               /\ rows' = rows
    /\ UNCHANGED <<SECRET, TOKEN, request, orch, responses, calls, ready, budget,
                   parse_in, parse_out>>

\* mutant of UploadBlock: an upload failure is answered to the caller
UploadBlock_reports(r) ==
    /\ running = r
    /\ task[r].pc = "upload"
    /\ task[r].idx < Len(task[r].notion_blocks)
    /\ \E o \in UploadOutcomes :
          LET block_descriptor == task[r].notion_blocks[task[r].idx + 1] IN
          IF o = "ok"
          THEN /\ rows' = [rows EXCEPT ![task[r].page].children =
                              Append(@, block_descriptor)]
               /\ task' = [task EXCEPT ![r].idx = @ + 1]
               /\ running' = running
               /\ responses' = responses
          ELSE /\ task' = [task EXCEPT ![r] = Ended("failed", o, "upload_notion_block")]
               /\ running' = 0
               /\ rows' = rows
               /\ responses' = [responses EXCEPT ![r] = Append(@, ServerErrorResponse(o))]
    /\ UNCHANGED <<SECRET, TOKEN, request, orch, calls, ready, budget,
                   parse_in, parse_out>>

\* mutant of UploadBlock: a failed upload rolls the row back (the page is
\* removed from the store)
UploadBlock_rollback(r) ==
    /\ running = r
    /\ task[r].pc = "upload"
    /\ task[r].idx < Len(task[r].notion_blocks)
    /\ \E o \in UploadOutcomes :
          LET block_descriptor == task[r].notion_blocks[task[r].idx + 1] IN
          IF o = "ok"
          THEN /\ rows' = [rows EXCEPT ![task[r].page].children =
                              Append(@, block_descriptor)]
               /\ task' = [task EXCEPT ![r].idx = @ + 1]
               /\ running' = running
          ELSE /\ task' = [task EXCEPT ![r] = Ended("failed", o, "upload_notion_block")]
               /\ running' = 0
               /\ rows' = [k \in 1..(Len(rows) - 1) |->
                              IF k < task[r].page THEN rows[k] ELSE rows[k + 1]]
    /\ UNCHANGED <<SECRET, TOKEN, request, orch, responses, calls, ready, budget,
                   parse_in, parse_out>>

\* mutant of UploadBlock: a failed upload is skipped and the loop goes on with
\* the next block
UploadBlock_skips(r) ==
    /\ running = r
    /\ task[r].pc = "upload"
    /\ task[r].idx < Len(task[r].notion_blocks)
    /\ \E o \in UploadOutcomes :
          LET block_descriptor == task[r].notion_blocks[task[r].idx + 1] IN
          IF o = "ok"
          THEN /\ rows' = [rows EXCEPT ![task[r].page].children =
                              Append(@, block_descriptor)]
               /\ task' = [task EXCEPT ![r].idx = @ + 1]
               /\ running' = running
          ELSE /\ task' = [task EXCEPT ![r].idx = @ + 1]
               /\ running' = running
               /\ rows' = rows
    /\ UNCHANGED <<SECRET, TOKEN, request, orch, responses, calls, ready, budget,
                   parse_in, parse_out>>

\* lines 141-147: one turn of the upload loop
UploadBlock(r) ==
    /\ running = r
    /\ task[r].pc = "upload"
    /\ task[r].idx < Len(task[r].notion_blocks)
    /\ \E o \in UploadOutcomes :
          LET block_descriptor == task[r].notion_blocks[task[r].idx + 1] IN
          IF o = "ok"
          THEN /\ rows' = [rows EXCEPT ![task[r].page].children =
                              Append(@, block_descriptor)]
               /\ task' = [task EXCEPT ![r].idx = @ + 1]
               /\ running' = running
          ELSE /\ task' = [task EXCEPT ![r] = Ended("failed", o, "upload_notion_block")]
               /\ running' = 0
               /\ rows' = rows
    /\ UNCHANGED <<SECRET, TOKEN, request, orch, responses, calls, ready, budget, parse_in, parse_out>>

\* mutant of Finish: the task is dropped at the end of the upload loop
\* without having returned, as a cancelled task is
Finish_cancelled(r) ==
    /\ running = r
    /\ task[r].pc = "upload"
    /\ task[r].idx = Len(task[r].notion_blocks)
    /\ task' = [task EXCEPT ![r] = NoTask]
    /\ running' = 0
    /\ UNCHANGED <<SECRET, TOKEN, request, orch, responses, calls, rows, ready,
                   budget, parse_in, parse_out>>

\* line 149: the upload loop is over, the coroutine returns
Finish(r) ==
    /\ running = r
    /\ task[r].pc = "upload"
    /\ task[r].idx = Len(task[r].notion_blocks)
    /\ task' = [task EXCEPT ![r] = Ended("done", None, None)]
    /\ running' = 0
    /\ UNCHANGED <<SECRET, TOKEN, request, orch, responses, calls, rows, ready,
                   budget, parse_in, parse_out>>

Next ==
    \E r \in Requests :
        \/ Receive(r)
        \/ add_db_row_handler(r)
        \/ TaskStart(r)
        \/ SetProperty(r)
        \/ Convert(r)
        \/ UploadBlock(r)
        \/ Finish(r)

Spec == Init /\ [][Next]_vars

\* the loop runs what is ready: a handler whose request was read, the oldest
\* added task, and each turn of a started task; the store calls return or
\* raise
FairSpec ==
    /\ Spec
    /\ \A r \in Requests :
          /\ WF_vars(add_db_row_handler(r))
          /\ WF_vars(TaskStart(r))
          /\ WF_vars(SetProperty(r))
          /\ WF_vars(Convert(r))
          /\ WF_vars(UploadBlock(r))
          /\ WF_vars(Finish(r))

\* ------------------------------------------------------- the parser harness
\* parse_add_db_row_request applied to every bounded `properties` value
ParserInit ==
    /\ SECRET = ConfiguredSecret
    /\ TOKEN = ConfiguredToken
    /\ request = [r \in Requests |-> NoRequest]
    /\ orch = [r \in Requests |-> Idle]
    /\ responses = [r \in Requests |-> <<>>]
    /\ calls = <<>>
    /\ rows = <<>>
    /\ task = [r \in Requests |-> NoTask]
    /\ ready = <<>>
    /\ running = 0
    /\ budget = [props |-> MaxProps, blocks |-> MaxBlocks]
    /\ parse_in \in HarnessJson
    /\ parse_out = NotParsed

Parse ==
    /\ ~parse_out.called
    /\ LET got == parse_add_db_row_request(parse_in)
       IN parse_out' = [called |-> TRUE, end |-> got.end, result |-> got.result]
    /\ UNCHANGED <<SECRET, TOKEN, request, orch, responses, calls, rows, task, ready,
                   running, budget, parse_in>>

ParserNext == Parse

ParserSpec == ParserInit /\ [][ParserNext]_vars

\* ================================================================== claims
\* the step of request r's handler, from the request to its response
Handled(r) == orch[r].state = "received" /\ orch'[r].state # "received"

IsFailure(resp) == "status" \in DOMAIN resp.body /\ resp.body.status = "failure"

IsSuccess(resp) ==
    /\ resp.status = 200
    /\ "status" \in DOMAIN resp.body
    /\ resp.body.status = "background_processing"
    /\ "new_row_url" \in DOMAIN resp.body

RowsOf(r) == {id \in 1..Len(rows) : rows[id].created_by = r}
CallsOf(r) == {k \in 1..Len(calls) : calls[k].by = r}

\* ---------------------------------------------------------------------- C1
BadSecret(r) == request[r].secret = None \/ request[r].secret # SECRET

\* the handler's step for a request with a missing or wrong secret answers
\* with a failure and touches neither the store nor the task queue
C1_Step ==
    \A r \in Requests :
        (Handled(r) /\ BadSecret(r)) =>
            /\ Len(responses'[r]) = 1
            /\ IsFailure(responses'[r][1])
            /\ orch'[r].state = "aborted"
            /\ calls' = calls
            /\ rows' = rows
            /\ task' = task
            /\ ready' = ready

\* a request that was aborted before it was validated never has a login, a
\* row or a task
C1_Inv ==
    \A r \in Requests :
        (orch[r].state = "aborted" /\ orch[r].stage = "received") =>
            /\ RowsOf(r) = {}
            /\ CallsOf(r) = {}
            /\ task[r].pc = "none"

\* C1: a request whose `secret` is missing or differs from SECRET is answered
\* with status = "failure", and no login, no row and no background task ever
\* happens for it.
C1_SecretRejected == []C1_Inv /\ [][C1_Step]_vars

\* a wrong secret was refused while the secret and the token are configured
C1_Witness ==
    \E r \in Requests :
        /\ SECRET # None /\ TOKEN # None
        /\ orch[r].state = "aborted"
        /\ Len(responses[r]) = 1
        /\ IsFailure(responses[r][1])
        /\ responses[r][1].body.error.text = "Auth Failure: secret does not match"

\* ---------------------------------------------------------------------- C2
ValidRequest(r) ==
    /\ SECRET # None /\ request[r].secret = SECRET
    /\ request[r].json.kind = "object" /\ "db_url" \in request[r].json.keys
    /\ TOKEN # None

\* in this step the store accepted the login and created the row
StoreAccepts(r) ==
    calls' = calls \o <<StoreCall("login", r, "ok"), StoreCall("add_row", r, "ok")>>

\* the response of a valid request is the success response, and when it is
\* written the task has been added but has not started: no block is uploaded
C2_Step ==
    \A r \in Requests :
        (Handled(r) /\ ValidRequest(r) /\ StoreAccepts(r)) =>
            /\ Len(responses'[r]) = 1
            /\ IsSuccess(responses'[r][1])
            /\ responses'[r][1].body.new_row_url # <<>>
            /\ orch'[r].state = "responded"
            /\ task'[r].pc = "scheduled"
            /\ Len(convert_md_to_notion(task'[r].body)) = BlocksIn(request[r].json)
            /\ \A id \in 1..Len(rows') :
                  rows'[id].created_by = r => rows'[id].children = <<>>

\* a task runs only after its request's success response was written
C2_Inv ==
    \A r \in Requests :
        task[r].pc \notin {"none", "scheduled"} =>
            Len(responses[r]) = 1 /\ IsSuccess(responses[r][1])

\* C2: a valid request is answered 200 with status = "background_processing"
\* and a non-empty new_row_url, and the response is written before the
\* Content Populator has uploaded the blocks, however many there are.
C2_RespondsBeforeUpload == []C2_Inv /\ [][C2_Step]_vars

\* a request with the largest body was answered and its task has not started
C2_Witness ==
    \E r \in Requests :
        /\ orch[r].state = "responded"
        /\ Len(responses[r]) = 1 /\ IsSuccess(responses[r][1])
        /\ task[r].pc = "scheduled"
        /\ Len(convert_md_to_notion(task[r].body)) = MaxBlocks

\* ---------------------------------------------------------------------- C3
\* C3: every fatal failure of the synchronous phase the claim lists (the
\* secret, the JSON body, db_url, TOKEN, the login, the row creation) ends
\* the request through AppException, serialized as {status: "failure",
\* error} with the error's status code; the request is never `responded`.
C3_FatalErrorsAreAppExceptions ==
    \A r \in Requests :
        (orch[r].state = "aborted" /\ orch[r].error # "AttributeError") =>
            /\ orch[r].error = "AppException"
            /\ Len(responses[r]) = 1
            /\ IsFailure(responses[r][1])
            /\ responses[r][1].status = DefaultStatusCode

\* ---------------------------------------------------------------------- C4
\* C4: when `properties` is not a list, the parser returns no property and
\* exactly one soft error, and does not raise.
C4_NotAListIsOneSoftError ==
    (/\ parse_out.called
     /\ "properties" \in parse_in.keys
     /\ parse_in.properties.t # "list") =>
        /\ parse_out.end.raised = None
        /\ parse_out.result.properties = <<>>
        /\ Len(parse_out.result.errors) = 1
        /\ parse_out.result.errors[1].arg = parse_in.properties

\* the parser was given a string as `properties`
C4_Witness ==
    /\ parse_out.called
    /\ "properties" \in parse_in.keys
    /\ parse_in.properties.t = "str"
    /\ Len(parse_out.result.errors) = 1

\* ---------------------------------------------------------------------- C5
\* a mapping with a non-null name and a non-null value
ValidElement(e) ==
    /\ e.t = "dict"
    /\ e.name # Absent /\ e.name # None
    /\ e.value # Absent /\ e.value # None

SkippedElement(e) == ~ValidElement(e)

\* C5: for a `properties` list the parser returns the valid elements, in
\* input order, and one soft error per skipped element, in input order; it
\* does not raise.
C5_ListIsFiltered ==
    (/\ parse_out.called
     /\ "properties" \in parse_in.keys
     /\ parse_in.properties.t = "list") =>
        LET given == parse_in.properties.v
            valid == SelectSeq(given, ValidElement)
            skipped == SelectSeq(given, SkippedElement)
            got == parse_out.result
        IN /\ parse_out.end.raised = None
           /\ Len(got.properties) = Len(valid)
           /\ \A k \in 1..Len(valid) :
                 got.properties[k] = NotionPageProperty(valid[k].name, valid[k].value)
           /\ Len(got.errors) = Len(skipped)
           /\ \A k \in 1..Len(skipped) : got.errors[k].arg = skipped[k]
           /\ Len(got.properties) + Len(got.errors) = Len(given)

\* a list of the greatest length with a valid element after a skipped one
C5_Witness ==
    /\ parse_out.called
    /\ "properties" \in parse_in.keys
    /\ parse_in.properties.t = "list"
    /\ Len(parse_in.properties.v) = MaxParseLen
    /\ SkippedElement(parse_in.properties.v[1])
    /\ ValidElement(parse_in.properties.v[MaxParseLen])
    /\ Len(parse_out.result.properties) >= 1
    /\ Len(parse_out.result.errors) >= 1

\* ---------------------------------------------------------------------- C6
Page(r) == rows[task[r].page]

\* the exception of the set_property call of this step, None when it
\* returned or when the step is no set_property call
SetPropertyRaised(r) ==
    IF task[r].pc = "props" /\ task[r].i <= Len(task[r].properties) /\ task'[r] # task[r]
    THEN IF task'[r].pc = "failed" THEN task'[r].exc
         ELSE IF task'[r].last = "ok" THEN None ELSE task'[r].last
    ELSE None

\* a set_property call that raises one of the caught classes leaves the task
\* in the property loop, at the next property, and leaves the row alone
C6_Step ==
    \A r \in Requests :
        SetPropertyRaised(r) \in Caught =>
            /\ task'[r].pc = "props"
            /\ task'[r].i = task[r].i + 1
            /\ task'[r].properties = task[r].properties
            /\ running' = r
            /\ rows' = rows

\* after a caught failure the task can go on (to the next property, or to
\* the conversion when it was the last); the upload starts only when every
\* property was attempted; no task ends in a caught class of set_property
C6_Inv ==
    \A r \in Requests :
        /\ (task[r].pc = "props" /\ task[r].last \in Caught) =>
              IF task[r].i <= Len(task[r].properties)
              THEN ENABLED SetProperty(r) ELSE ENABLED Convert(r)
        /\ task[r].pc = "upload" => task[r].i = Len(task[r].properties) + 1
        /\ (task[r].pc = "failed" /\ task[r].at = "set_property") =>
              task[r].exc \notin Caught

\* C6: when setting property k fails with a type or value error, the failure
\* is caught, the properties after k are still attempted and the block
\* upload still proceeds.
C6_PropertyFailureIsCaught == []C6_Inv /\ [][C6_Step]_vars

\* the first of two properties failed, the second was set, and a block was
\* uploaded after that
C6_Witness ==
    \E r \in Requests :
        /\ task[r].pc = "upload"
        /\ Len(task[r].properties) >= 2
        /\ Page(r).properties = <<task[r].properties[2]>>
        /\ Len(Page(r).children) >= 1

\* ---------------------------------------------------------------------- C7
\* with an empty body the conversion yields no block, nothing is uploaded,
\* and the only step left is the return
C7_Inv ==
    \A r \in Requests :
        (task[r].pc = "upload" /\ task[r].body = <<>>) =>
            /\ task[r].notion_blocks = <<>>
            /\ Page(r).children = <<>>
            /\ task[r].i = Len(task[r].properties) + 1
            /\ ENABLED Finish(r)
            /\ ~ENABLED UploadBlock(r)

\* once every property was attempted, each step of a task with an empty body
\* leads to the upload loop or to the end, never to a failure, and uploads
\* nothing
C7_Step ==
    \A r \in Requests :
        (/\ task[r].pc \in {"props", "upload"}
         /\ task[r].body = <<>>
         /\ task[r].i > Len(task[r].properties)
         /\ task'[r] # task[r]) =>
            /\ task'[r].pc = IF task[r].pc = "props" THEN "upload" ELSE "done"
            /\ \A id \in RowsOf(r) : rows'[id].children = <<>>

\* C7: with an empty markdown body the Content Populator, after attempting
\* every property, uploads no block and finishes without error.
C7_EmptyBodyUploadsNothing == []C7_Inv /\ [][C7_Step]_vars

\* a task that set a property finished, and its row has no block
C7_Witness ==
    \E r \in Requests :
        /\ task[r].pc = "done"
        /\ \E id \in RowsOf(r) :
              rows[id].children = <<>> /\ rows[id].properties # <<>>

\* ---------------------------------------------------------------------- C8
\* the blocks on the row are the first idx blocks of the conversion
C8_Inv ==
    \A r \in Requests :
        LET converted == convert_md_to_notion(task[r].body) IN
        /\ task[r].pc \in {"scheduled", "props"} => Page(r).children = <<>>
        /\ task[r].pc = "upload" =>
              /\ task[r].idx <= Len(converted)
              /\ Page(r).children = SubSeq(converted, 1, task[r].idx)

\* one block at most per step; a task that returns has uploaded the whole
\* conversion; a task that raises, and an ended task, leave the row as it is
C8_Step ==
    \A r \in Requests :
        /\ \A id \in RowsOf(r) :
              Len(rows'[id].children) <= Len(rows[id].children) + 1
        /\ (task[r].pc = "upload" /\ task'[r].pc = "done") =>
              \A id \in RowsOf(r) :
                  rows'[id].children = convert_md_to_notion(task[r].body)
        /\ (task[r].pc \in {"props", "upload"} /\ task'[r].pc = "failed") =>
              rows' = rows
        /\ task[r].pc \in {"done", "failed"} =>
              \A id \in RowsOf(r) : rows'[id] = rows[id]

\* C8: the blocks uploaded so far are always a prefix of the converter's
\* output for the body: one at a time, in order, none skipped, reordered or
\* repeated; a task that finishes without error has uploaded all of it.
C8_UploadedIsPrefix == []C8_Inv /\ [][C8_Step]_vars

\* a task finished after uploading the blocks of the longest body
C8_Witness ==
    \E r \in Requests :
        /\ task[r].pc = "done"
        /\ \E id \in RowsOf(r) :
              /\ Len(rows[id].children) = MaxBlocks
              /\ rows[id].children[1].title < rows[id].children[MaxBlocks].title

\* ---------------------------------------------------------------------- C9
\* C9: a response that carries new_row_url was produced after the row with
\* that url was created in the store by the same request.
C9_UrlOfExistingRow ==
    \A r \in Requests :
        \A k \in 1..Len(responses[r]) :
            "new_row_url" \in DOMAIN responses[r][k].body =>
                \E id \in RowsOf(r) : rows[id].url = responses[r][k].body.new_row_url

\* the second row of the store was answered to the request that created it
C9_Witness ==
    \E r \in Requests :
        /\ Len(responses[r]) = 1 /\ IsSuccess(responses[r][1])
        /\ Len(rows) >= 2
        /\ rows[2].created_by = r
        /\ rows[2].url = responses[r][1].body.new_row_url

\* --------------------------------------------------------------------- C10
C10_Inv ==
    \A r \in Requests :
        /\ Len(responses[r]) <= 1
        /\ orch[r].state \in {"idle", "received"} => responses[r] = <<>>

\* a response, once written, stays as it is and stays the only one
C10_Step == \A r \in Requests : responses[r] # <<>> => responses'[r] = responses[r]

\* C10: at most one response is sent per request, and no step of the
\* background task, a failing one included, changes it or adds another.
C10_OneResponse == []C10_Inv /\ [][C10_Step]_vars

\* a task failed in its second upload, and the response is still the success
\* response
C10_Witness ==
    \E r \in Requests :
        /\ task[r].pc = "failed" /\ task[r].at = "upload_notion_block"
        /\ Len(responses[r]) = 1 /\ IsSuccess(responses[r][1])
        /\ \E id \in RowsOf(r) : rows[id].properties = <<>> /\ Len(rows[id].children) = 1

\* --------------------------------------------------------------------- C11
\* the messages of the soft errors parse_add_db_row_request returns
SoftErrorTexts ==
    {"properties is not a list", "not a dictionary", "name or value key is missing"}

\* a success response has no `errors` key, or a non-empty list of parser
\* messages under it
C11_Inv ==
    \A r \in Requests :
        \A k \in 1..Len(responses[r]) :
            LET body == responses[r][k].body IN
            (IsSuccess(responses[r][k]) /\ "errors" \in DOMAIN body) =>
                /\ body.errors # <<>>
                /\ \A n \in 1..Len(body.errors) : body.errors[n].text \in SoftErrorTexts

\* the handler's step answers the parser's soft errors as they are, and no
\* `errors` key when there is none; a step of the task leaves the response as
\* it is
C11_Step ==
    \A r \in Requests :
        /\ (Handled(r) /\ orch'[r].state = "responded") =>
              LET soft == parse_add_db_row_request(request[r].json).result.errors
                  body == responses'[r][1].body
              IN /\ Len(responses'[r]) = 1
                 /\ IsSuccess(responses'[r][1])
                 /\ IF soft = <<>>
                    THEN "errors" \notin DOMAIN body
                    ELSE "errors" \in DOMAIN body /\ body.errors = soft
        /\ (task[r].pc # "none" /\ task'[r] # task[r]) => responses' = responses

\* C11: the `errors` field of a success response is the ordered list of the
\* parser's soft errors; it is left out when that list is empty, and it never
\* holds a failure of the background task.
C11_ErrorsAreSoftErrors == []C11_Inv /\ [][C11_Step]_vars

\* a response carries the one soft error of a two-element list, and the task
\* of that request then failed in set_property
C11_Witness ==
    \E r \in Requests :
        /\ Len(responses[r]) = 1 /\ IsSuccess(responses[r][1])
        /\ "errors" \in DOMAIN responses[r][1].body
        /\ Len(responses[r][1].body.errors) = 1
        /\ responses[r][1].body.errors[1].text = "name or value key is missing"
        /\ task[r].pc = "failed" /\ task[r].at = "set_property"

\* --------------------------------------------------------------------- C12
\* the request carries the configured secret
CorrectSecret(r) == SECRET # None /\ request[r].secret = SECRET

\* the body of the request supplies no db_url: an object without the key, an
\* empty body, or JSON that is no object
NoDbUrl(r) ==
    \/ request[r].json.kind \in {"empty", "array"}
    \/ request[r].json.kind = "object" /\ "db_url" \notin request[r].json.keys

C12_Step ==
    \A r \in Requests :
        (Handled(r) /\ CorrectSecret(r) /\ NoDbUrl(r)) =>
            /\ Len(responses'[r]) = 1
            /\ IsFailure(responses'[r][1])
            /\ "error" \in DOMAIN responses'[r][1].body
            /\ calls' = calls
            /\ rows' = rows
            /\ task' = task
            /\ ready' = ready

\* C12: a request with the correct secret whose body supplies no db_url (an
\* empty body and JSON that is no object included) is answered with the
\* structured failure {status: "failure", error}, and no login, no row and no
\* background task happens for it.
C12_NoDbUrlIsStructuredFailure == [][C12_Step]_vars

\* --------------------------------------------------------------------- C13
\* s is t, or t with elements added at its end
Extends(s, t) == Len(s) >= Len(t) /\ SubSeq(s, 1, Len(t)) = t

\* a request has one row at most
C13_Inv == \A r \in Requests : Cardinality(RowsOf(r)) <= 1

\* every row of the store is still there after the step, the row of the same
\* request in the same collection under the same url, with what it held
C13_Step ==
    /\ Len(rows') >= Len(rows)
    /\ \A id \in 1..Len(rows) :
          /\ rows'[id].created_by = rows[id].created_by
          /\ rows'[id].collection = rows[id].collection
          /\ rows'[id].url = rows[id].url
          /\ Extends(rows'[id].properties, rows[id].properties)
          /\ Extends(rows'[id].children, rows[id].children)

\* C13: a request creates one row at most, and no later step deletes a row or
\* rolls it back: the row is still in the store when a property assignment
\* fails and when a block upload ends the task.
C13_RowIsNeverRolledBack == []C13_Inv /\ [][C13_Step]_vars

\* the task of one request failed in set_property, the task of another in an
\* upload, and the row of each is in the store
C13_Witness ==
    \E r, q \in Requests :
        /\ task[r].pc = "failed" /\ task[r].at = "set_property"
        /\ task[q].pc = "failed" /\ task[q].at = "upload_notion_block"
        /\ Cardinality(RowsOf(r)) = 1
        /\ Cardinality(RowsOf(q)) = 1

\* --------------------------------------------------------------------- C14
\* this step is an upload_notion_block call of r's task that raised: a turn
\* of the upload loop that added no block to the store
UploadRaised(r) ==
    /\ task[r].pc = "upload"
    /\ task[r].idx < Len(task[r].notion_blocks)
    /\ task'[r] # task[r]
    /\ rows' = rows

\* a failed task is on no queue and has no step left
C14_Inv ==
    \A r \in Requests :
        task[r].pc = "failed" =>
            /\ running # r
            /\ \A k \in 1..Len(ready) : ready[k] # r
            /\ ~ENABLED UploadBlock(r)
            /\ ~ENABLED TaskStart(r)

\* the upload of block idx + 1 that raises ends the task as failed, with the
\* first idx blocks on the row and the response as it was; a failed task
\* changes nothing any more
C14_Step ==
    \A r \in Requests :
        /\ UploadRaised(r) =>
              /\ task'[r].pc = "failed"
              /\ task'[r].at = "upload_notion_block"
              /\ task'[r].exc # None
              /\ running' = 0
              /\ responses' = responses
              /\ orch' = orch
              /\ rows'[task[r].page].children =
                     SubSeq(task[r].notion_blocks, 1, task[r].idx)
        /\ task[r].pc = "failed" =>
              /\ task'[r] = task[r]
              /\ responses'[r] = responses[r]
              /\ \A id \in RowsOf(r) : rows'[id] = rows[id]

\* C14: when the upload of block i fails the task ends as failed there: block
\* i is not tried again, no later block is uploaded, the caller is told
\* nothing, and the row keeps the blocks 1..i-1.
C14_UploadFailureEndsTask == []C14_Inv /\ [][C14_Step]_vars

\* a task set a property, uploaded its first block and failed in the second
\* upload
C14_Witness ==
    \E r \in Requests :
        /\ task[r].pc = "failed" /\ task[r].at = "upload_notion_block"
        /\ \E id \in RowsOf(r) :
              /\ Len(rows[id].properties) = 1
              /\ Len(rows[id].children) = 1
              /\ rows[id].children[1] = convert_md_to_notion(Markdown(MaxBlocks))[1]

\* --------------------------------------------------------------------- C15
\* how many times r is on the queue of added tasks
Queued(r) == Cardinality({k \in 1..Len(ready) : ready[k] = r})

\* a request with a row is responded and has its one task; an aborted request
\* has neither a row nor a task
C15_Inv ==
    \A r \in Requests :
        /\ RowsOf(r) # {} =>
              /\ orch[r].state = "responded"
              /\ Len(responses[r]) = 1 /\ IsSuccess(responses[r][1])
        /\ orch[r].state = "responded" =>
              /\ RowsOf(r) # {}
              /\ task[r].pc # "none"
              /\ Queued(r) = (IF task[r].pc = "scheduled" THEN 1 ELSE 0)
        /\ orch[r].state = "aborted" =>
              /\ RowsOf(r) = {}
              /\ task[r].pc = "none"
              /\ Queued(r) = 0

\* the task is added in the handler's step and at no other; a task, once
\* added, is not added again; no step of the task changes the request's state
\* or a response
C15_Step ==
    \A r \in Requests :
        /\ (task'[r].pc = "scheduled" /\ task[r].pc # "scheduled") =>
              task[r].pc = "none" /\ Handled(r)
        /\ Queued(r)' >= 1 => Queued(r)' = 1
        /\ task[r].pc # "none" =>
              /\ task'[r].pc # "none"
              /\ orch'[r] = orch[r]
              /\ task'[r] # task[r] => (orch' = orch /\ responses' = responses)

\* C15: a request whose row was created is responded, and one populating task
\* is forked for it; a request aborted before its row was created forks none;
\* the end of the task, done or failed, is not awaited by and does not change
\* the request or its response.
C15_RowCreatedRespondsAndForksOnce == []C15_Inv /\ [][C15_Step]_vars

\* a request was aborted after its login, when the row creation failed; the
\* task of another request, responded, is done
C15_Witness ==
    \E r, q \in Requests :
        /\ orch[r].state = "aborted" /\ orch[r].stage = "authenticated"
        /\ task[r].pc = "none"
        /\ orch[q].state = "responded"
        /\ task[q].pc = "done"

\* --------------------------------------------------------------------- C16
\* the task of r is between two of its calls: started and not ended
InFlight(r) == task[r].pc \in {"props", "upload"}

\* q is the request the server takes up next
NextRequest(q) ==
    /\ orch[q].state = "idle"
    /\ \A p \in Requests : p < q => orch[p].state # "idle"

\* C16: the task yields to the scheduler at each set_property call and each
\* block upload, so that while the task of an earlier request is in flight
\* the loop can take up the next request, which is then validated, gets its
\* row and is answered before the earlier blocks are all uploaded.
C16_TaskYieldsToRequests ==
    \A r, q \in Requests :
        (InFlight(r) /\ NextRequest(q)) => ENABLED Receive(q)

\* --------------------------------------------------------------------- C17
\* the task of r is added and has not ended
Live(r) == task[r].pc \in {"scheduled", "props", "upload"}

\* the client of a live task is the login of its own request, its page is the
\* row of its own request, and no other live task holds either
C17_Inv ==
    \A r \in Requests :
        Live(r) =>
            /\ task[r].notion_client \in CallsOf(r)
            /\ calls[task[r].notion_client].op = "login"
            /\ task[r].page \in RowsOf(r)
            /\ \A q \in Requests \ {r} :
                  Live(q) => /\ task[q].page # task[r].page
                             /\ task[q].notion_client # task[r].notion_client

\* the handler gives the task the lists parsed from its own request and
\* leaves the rows and the tasks of the others as they are; a step of r's
\* task changes the row of r only, by one property or one block of r's own
\* frame
C17_Step ==
    \A r \in Requests :
        /\ (Handled(r) /\ orch'[r].state = "responded") =>
              LET parsed == parse_add_db_row_request(request[r].json).result IN
              /\ task'[r].properties = parsed.properties
              /\ task'[r].body = parsed.body
        /\ Handled(r) =>
              /\ \A id \in 1..Len(rows) : rows'[id] = rows[id]
              /\ \A q \in Requests \ {r} : task'[q] = task[q]
        /\ (task[r].pc # "none" /\ task'[r] # task[r]) =>
              /\ \A q \in Requests \ {r} : task'[q] = task[q]
              /\ \A id \in 1..Len(rows) :
                    rows'[id] # rows[id] =>
                        /\ id = task[r].page
                        /\ rows[id].created_by = r
                        /\ \/ /\ task[r].pc = "props"
                              /\ rows'[id] = [rows[id] EXCEPT !.properties =
                                     Append(@, task[r].properties[task[r].i])]
                           \/ /\ task[r].pc = "upload"
                              /\ rows'[id] = [rows[id] EXCEPT !.children =
                                     Append(@, task[r].notion_blocks[task[r].idx + 1])]

\* C17: each request has its own client and its own row; the task of a
\* request sets the properties and uploads the blocks of that request, onto
\* the row of that request and no other, whatever the order of the steps; the
\* parsed lists of one request are not those of another.
C17_RequestsAreIsolated == []C17_Inv /\ [][C17_Step]_vars

\* the task of one request has set a property on its row while the task of
\* another request, with a property of its own to set, waits with its row
\* still empty
C17_Witness ==
    \E r, q \in Requests :
        /\ r # q
        /\ InFlight(r) /\ Page(r).properties # <<>>
        /\ task[q].pc = "scheduled"
        /\ task[q].properties # <<>>
        /\ Page(q).properties = <<>> /\ Page(q).children = <<>>

\* --------------------------------------------------------------------- C18
\* s is t with some of its elements left out, the others in the order of t
RECURSIVE IsSubSeq(_, _)
IsSubSeq(s, t) ==
    IF s = <<>> THEN TRUE
    ELSE IF t = <<>> THEN FALSE
    ELSE IF Head(s) = Head(t) THEN IsSubSeq(Tail(s), Tail(t))
    ELSE IsSubSeq(s, Tail(t))

\* in the property loop nothing is converted or uploaded yet, and the row
\* holds, in parsed order, properties among the i - 1 attempted so far; the
\* upload loop starts after the last property
C18_Inv ==
    \A r \in Requests :
        /\ task[r].pc = "scheduled" => Page(r).properties = <<>>
        /\ task[r].pc = "props" =>
              /\ task[r].i >= 1 /\ task[r].i <= Len(task[r].properties) + 1
              /\ task[r].notion_blocks = <<>>
              /\ Page(r).children = <<>>
              /\ Len(Page(r).properties) <= task[r].i - 1
              /\ IsSubSeq(Page(r).properties,
                          SubSeq(task[r].properties, 1, task[r].i - 1))
        /\ task[r].pc = "upload" =>
              /\ task[r].i = Len(task[r].properties) + 1
              /\ IsSubSeq(Page(r).properties, task[r].properties)
              /\ ~ENABLED SetProperty(r)

\* a turn of the property loop attempts the property at i and moves to i + 1;
\* the conversion follows the last property; the upload loop sets no property
\* and does not go back to the property loop
C18_Step ==
    \A r \in Requests :
        /\ (task[r].pc = "props" /\ task'[r].pc = "props" /\ task'[r] # task[r]) =>
              /\ task'[r].i = task[r].i + 1
              /\ \/ rows' = rows
                 \/ rows' = [rows EXCEPT ![task[r].page].properties =
                                Append(@, task[r].properties[task[r].i])]
        /\ (task[r].pc = "props" /\ task'[r].pc = "upload") =>
              /\ task[r].i = Len(task[r].properties) + 1
              /\ rows' = rows
        /\ task[r].pc = "upload" =>
              /\ task'[r].pc # "props"
              /\ \A id \in RowsOf(r) : rows'[id].properties = rows[id].properties

\* C18: in one task the properties are attempted one at a time, in parsed
\* order, each once at most, and every attempt comes before the markdown
\* conversion and the first upload.
C18_PropertiesInOrderBeforeBlocks == []C18_Inv /\ [][C18_Step]_vars

\* a task set all the properties of the longest list and is uploading blocks
C18_Witness ==
    \E r \in Requests :
        /\ task[r].pc = "upload"
        /\ Len(task[r].properties) = MaxProps
        /\ Page(r).properties = task[r].properties
        /\ task[r].properties[1] # task[r].properties[MaxProps]

\* --------------------------------------------------------------------- C19
\* the two ways a task ends: it returned, or an exception left it
C19_Inv ==
    \A r \in Requests :
        /\ task[r].pc \in {"none", "scheduled", "props", "upload", "done", "failed"}
        /\ task[r].pc = "done" => task[r].exc = None
        /\ task[r].pc = "failed" =>
              /\ task[r].exc \in (SetOutcomes \cup UploadOutcomes) \ ({"ok"} \cup Caught)
              /\ task[r].at \in {"set_property", "upload_notion_block"}

\* an added task is not taken back: it moves from scheduled to the property
\* loop, from there to the upload loop, and ends as done after the last
\* property and the last block, or as failed out of one of the two loops; an
\* ended task stays as it ended
C19_Step ==
    \A r \in Requests :
        /\ task[r].pc = "scheduled" => task'[r].pc \in {"scheduled", "props"}
        /\ task[r].pc = "props" => task'[r].pc \in {"props", "upload", "failed"}
        /\ task[r].pc = "upload" => task'[r].pc \in {"upload", "done", "failed"}
        /\ task[r].pc \in {"done", "failed"} => task'[r] = task[r]
        /\ (task[r].pc # "done" /\ task'[r].pc = "done") =>
              /\ task[r].i = Len(task[r].properties) + 1
              /\ task[r].notion_blocks = convert_md_to_notion(task[r].body)
              /\ task[r].idx = Len(task[r].notion_blocks)
              /\ Page(r).children = task[r].notion_blocks

\* a scheduled task ends
C19_Live ==
    \A r \in Requests :
        (task[r].pc = "scheduled") ~> (task[r].pc \in {"done", "failed"})

\* C19: a scheduled task is not cancelled, and with a fair loop and store
\* calls that return or raise it ends in one of two final states: done, after
\* every property was attempted and every block uploaded, or failed, after an
\* exception that nothing caught.
C19_ScheduledTaskTerminates == []C19_Inv /\ [][C19_Step]_vars /\ C19_Live

\* one task is done with the blocks of the longest body on its row, and the
\* task of another request has failed
C19_Witness ==
    \E r, q \in Requests :
        /\ task[r].pc = "done"
        /\ \E id \in RowsOf(r) : Len(rows[id].children) = MaxBlocks
        /\ task[q].pc = "failed"

\* --------------------------------------------------------------------- C20
\* a task that ended in set_property ended with an exception of no caught
\* class, has no step left, and its row has no block
C20_Inv ==
    \A r \in Requests :
        (task[r].pc = "failed" /\ task[r].at = "set_property") =>
            /\ task[r].exc \notin Caught
            /\ running # r
            /\ ~ENABLED SetProperty(r)
            /\ ~ENABLED Convert(r)
            /\ ~ENABLED UploadBlock(r)
            /\ \A id \in RowsOf(r) : rows[id].children = <<>>

\* a set_property call that raises an exception of no caught class ends the
\* task there, with the row and the response as they were; the ended task and
\* its row stay as they are
C20_Step ==
    \A r \in Requests :
        /\ (SetPropertyRaised(r) # None /\ SetPropertyRaised(r) \notin Caught) =>
              /\ task'[r].pc = "failed"
              /\ task'[r].at = "set_property"
              /\ task'[r].exc = SetPropertyRaised(r)
              /\ running' = 0
              /\ rows' = rows
              /\ responses' = responses
        /\ (task[r].pc = "failed" /\ task[r].at = "set_property") =>
              /\ task'[r] = task[r]
              /\ \A id \in RowsOf(r) : rows'[id] = rows[id]

\* C20: a set_property call that raises an exception outside ValueError,
\* AttributeError and TypeError is not caught: the task ends at that
\* property, no later property is attempted, no block is uploaded, and the
\* row stays in the store without content blocks.
C20_UncaughtPropertyErrorEndsTask == []C20_Inv /\ [][C20_Step]_vars

\* the first property was set, the second set_property call raised an
\* HTTPError, and the row has no block
C20_Witness ==
    \E r \in Requests :
        /\ task[r].pc = "failed" /\ task[r].at = "set_property"
        /\ task[r].exc = "HTTPError"
        /\ \E id \in RowsOf(r) :
              Len(rows[id].properties) = 1 /\ rows[id].children = <<>>

====
